---- MODULE Spec2Model ----
(***************************************************************************)
(* State-machine model of the catalog service                              *)
(* (src/test-microservices/catalog-service/main.py) and of the refund      *)
(* handler of the payment service                                          *)
(* (src/test-microservices/payment-service/main.py).                       *)
(*                                                                         *)
(* Money is a float in the source.  Here an amount of the catalog is an    *)
(* integer number of mills (1 mill = 0.001 currency units), so that the    *)
(* two-decimal rounding of bulk_price_update (to a multiple of 10 mills)   *)
(* is a real conversion.  Intermediate prices of bulk_price_update are     *)
(* kept exactly, in units of 1/100 mill.                                   *)
(***************************************************************************)
EXTENDS Integers, Sequences, FiniteSets, TLC

VARIABLES products, product_keys, reviews, wishlists, discounts,
          refund_call, refunds, in_flight, resp

vars == <<products, product_keys, reviews, wishlists, discounts,
          refund_call, refunds, in_flight, resp>>

\* Python's None for an Optional field that was not supplied.
None == -1

\* Python truthiness of an Optional number: None and 0 are falsy.
Truthy(v) == v # None /\ v # 0

\* None for an Optional string field that was not supplied.
Unset == ""

-----------------------------------------------------------------------------
\* Bounds of the model

\* longest product_ids list of a bulk_price_update request
MaxBatch == 2
\* adjust_stock requests are only issued while the stock stays at most this
MaxStock == 2
\* wishlist items added on top of the pre-filled list
MaxExtra == 2
\* create_refund requests are issued to a transaction while the total it
\* has refunded is at most this (the transaction amount)
MaxRefunded == 5000

-----------------------------------------------------------------------------
\* Actors and identifiers

Actors ==
    { [id |-> "u1", role |-> "vendor"],
      [id |-> "u2", role |-> "user"],
      [id |-> "u3", role |-> "moderator"] }

UserIds == { a.id : a \in Actors }

ProductIds == {"p1", "p2"}

\* The response of the last handled request.  updated/skipped are the
\* manifest of bulk_price_update, item holds the returned record (if any),
\* val a returned number (new_stock, refund amount).
Response(op, status, detail) ==
    [op |-> op, status |-> status, detail |-> detail,
     updated |-> <<>>, skipped |-> <<>>, item |-> {}, val |-> None]

NoResponse == Response("none", 0, "")

-----------------------------------------------------------------------------
\* Schema validators (pydantic models)

\* price: lt=1_000_000 currency units, here in mills
PriceLimit == 1000000000

\* stock_quantity: le=999_999
StockLimit == 999999

\* delta: ge=-10_000, le=10_000
DeltaLimit == 10000

\* Field(gt=0, lt=1_000_000) on a price, in mills
PriceInRange(v) == v > 0 /\ v < PriceLimit

CreateProductRequestValid(body) ==
    /\ PriceInRange(body.price)
    /\ (body.sale_price # None => PriceInRange(body.sale_price))
    /\ body.stock_quantity >= 0 /\ body.stock_quantity <= StockLimit
    \* validate_sale_price
    /\ ~(body.sale_price # None /\ body.sale_price >= body.price)

UpdateProductRequestValid(body) ==
    /\ (body.price # None => PriceInRange(body.price))
    /\ (body.sale_price # None => PriceInRange(body.sale_price))
    /\ (body.stock_quantity # None =>
            body.stock_quantity >= 0 /\ body.stock_quantity <= StockLimit)

AdjustStockRequestValid(body) ==
    body.delta >= -DeltaLimit /\ body.delta <= DeltaLimit

-----------------------------------------------------------------------------
\* The stores as Python dicts: functions whose domain is the set of keys.

Put(store, k, v) ==
    [q \in DOMAIN store \cup {k} |-> IF q = k THEN v ELSE store[q]]

Del(store, k) ==
    [q \in DOMAIN store \ {k} |-> store[q]]

EmptyStore == [q \in {} |-> 0]

\* A dict iterates in insertion order: the keys of the store after a
\* handler, in the order list(store.values()) visits them.  A deleted key
\* leaves the order, a new key goes to the end, a rewritten key stays put.
DictOrder(keys, before, after) ==
    LET kept == SelectSeq(keys, LAMBDA k : k \in DOMAIN after)
        fresh == DOMAIN after \ DOMAIN before
    IN IF fresh = {} THEN kept ELSE Append(kept, CHOOSE k \in fresh : TRUE)

-----------------------------------------------------------------------------
\* Product handlers.  Each Result operator returns the store and the
\* response the handler leaves behind.

CreateProductResult(prods, actor, product_id, body) ==
    IF ~CreateProductRequestValid(body)
    THEN [products |-> prods, resp |-> Response("create_product", 422, "validation")]
    ELSE LET product == [id |-> product_id,
                         vendor_id |-> actor.id,
                         category |-> body.category,
                         status |-> body.status,
                         price |-> body.price,
                         sale_price |-> body.sale_price,
                         stock_quantity |-> body.stock_quantity]
         IN [products |-> Put(prods, product_id, product),
             resp |-> [Response("create_product", 201, "") EXCEPT !.item = {product}]]

\* product.update(updates): only the supplied (non-None) fields are written
ApplyUpdates(product, body) ==
    [product EXCEPT
        !.status = IF body.status # Unset THEN body.status ELSE @,
        !.price = IF body.price # None THEN body.price ELSE @,
        !.sale_price = IF body.sale_price # None THEN body.sale_price ELSE @,
        !.stock_quantity =
            IF body.stock_quantity # None THEN body.stock_quantity ELSE @]

\* mutant: the ownership check of update_product is missing
MutUpdateProductNoOwnerCheck(prods, actor, product_id, body) ==
    IF ~UpdateProductRequestValid(body)
    THEN [products |-> prods, resp |-> Response("update_product", 422, "validation")]
    ELSE IF product_id \notin DOMAIN prods
    THEN [products |-> prods, resp |-> Response("update_product", 404, "not_found")]
    ELSE LET product == ApplyUpdates(prods[product_id], body)
         IN [products |-> Put(prods, product_id, product),
             resp |-> [Response("update_product", 200, "") EXCEPT !.item = {product}]]

UpdateProductResult(prods, actor, product_id, body) ==
    IF ~UpdateProductRequestValid(body)
    THEN [products |-> prods, resp |-> Response("update_product", 422, "validation")]
    ELSE IF product_id \notin DOMAIN prods
    THEN [products |-> prods, resp |-> Response("update_product", 404, "not_found")]
    ELSE IF prods[product_id].vendor_id # actor.id
    THEN [products |-> prods, resp |-> Response("update_product", 403, "forbidden")]
    ELSE LET product == ApplyUpdates(prods[product_id], body)
         IN [products |-> Put(prods, product_id, product),
             resp |-> [Response("update_product", 200, "") EXCEPT !.item = {product}]]

DeleteProductResult(prods, actor, product_id) ==
    IF product_id \notin DOMAIN prods
    THEN [products |-> prods, resp |-> Response("delete_product", 404, "not_found")]
    ELSE IF prods[product_id].vendor_id # actor.id
    THEN [products |-> prods, resp |-> Response("delete_product", 403, "forbidden")]
    ELSE [products |-> Del(prods, product_id),
          resp |-> Response("delete_product", 204, "")]

\* mutant: a stock that would go negative is clamped to 0
MutAdjustStockClamp(prods, actor, product_id, body) ==
    IF ~AdjustStockRequestValid(body)
    THEN [products |-> prods, resp |-> Response("adjust_stock", 422, "validation")]
    ELSE IF product_id \notin DOMAIN prods
    THEN [products |-> prods, resp |-> Response("adjust_stock", 404, "not_found")]
    ELSE IF prods[product_id].vendor_id # actor.id
    THEN [products |-> prods, resp |-> Response("adjust_stock", 403, "forbidden")]
    ELSE LET sum == prods[product_id].stock_quantity + body.delta
             new_stock == IF sum < 0 THEN 0 ELSE sum
         IN [products |->
                 [prods EXCEPT ![product_id].stock_quantity = new_stock],
             resp |-> [Response("adjust_stock", 200, "") EXCEPT !.val = new_stock]]

AdjustStockResult(prods, actor, product_id, body) ==
    IF ~AdjustStockRequestValid(body)
    THEN [products |-> prods, resp |-> Response("adjust_stock", 422, "validation")]
    ELSE IF product_id \notin DOMAIN prods
    THEN [products |-> prods, resp |-> Response("adjust_stock", 404, "not_found")]
    ELSE IF prods[product_id].vendor_id # actor.id
    THEN [products |-> prods, resp |-> Response("adjust_stock", 403, "forbidden")]
    ELSE LET new_stock == prods[product_id].stock_quantity + body.delta IN
         IF new_stock < 0
         THEN [products |-> prods,
               resp |-> Response("adjust_stock", 400, "insufficient_stock")]
         ELSE [products |->
                   [prods EXCEPT ![product_id].stock_quantity = new_stock],
               resp |-> [Response("adjust_stock", 200, "") EXCEPT !.val = new_stock]]

\* page: le=10_000
PageMax == 10000

\* page_size: le=100
PageSizeMax == 100

\* the Query(...) constraints of list_products
ListQueryValid(query) ==
    /\ (query.min_price # None => query.min_price >= 0)
    /\ (query.max_price # None => query.max_price >= 0)
    /\ query.page >= 1 /\ query.page <= PageMax
    /\ query.page_size >= 1 /\ query.page_size <= PageSizeMax

\* list(_products.values())
AllProducts(prods, keys) == [i \in 1..Len(keys) |-> prods[keys[i]]]

\* items[start : stop] of Python, for 0 <= start <= stop
Slice(items, start, stop) ==
    LET last == IF stop < Len(items) THEN stop ELSE Len(items)
    IN IF start >= last THEN <<>> ELSE SubSeq(items, start + 1, last)

\* the four filters of list_products, each applied if supplied
FilterProducts(items, query) ==
    LET by_category == IF query.category # Unset
                       THEN SelectSeq(items, LAMBDA p : p.category = query.category)
                       ELSE items
        by_status == IF query.status # Unset
                     THEN SelectSeq(by_category, LAMBDA p : p.status = query.status)
                     ELSE by_category
        by_min == IF query.min_price # None
                  THEN SelectSeq(by_status, LAMBDA p : p.price >= query.min_price)
                  ELSE by_status
    IN IF query.max_price # None
       THEN SelectSeq(by_min, LAMBDA p : p.price <= query.max_price)
       ELSE by_min

\* mutant: pages are counted from 0
MutListingZeroIndexed(items, query) ==
    LET start == query.page * query.page_size
    IN [items |-> Slice(items, start, start + query.page_size),
        total |-> Len(items)]

\* the listing a successful list_products returns
Listing(items, query) ==
    LET start == (query.page - 1) * query.page_size
    IN [items |-> Slice(items, start, start + query.page_size),
        total |-> Len(items)]

\* query.sort is accepted and never read
ListProductsResult(prods, keys, query) ==
    IF ~ListQueryValid(query)
    THEN [products |-> prods, resp |-> Response("list_products", 422, "validation")]
    ELSE IF query.min_price # None /\ query.max_price # None
               /\ query.min_price > query.max_price
    THEN [products |-> prods, resp |-> Response("list_products", 400, "price_range")]
    ELSE LET items == FilterProducts(AllProducts(prods, keys), query)
         IN [products |-> prods,
             resp |-> [Response("list_products", 200, "") EXCEPT
                          !.item = {Listing(items, query)}]]

GetProductResult(prods, product_id) ==
    IF product_id \notin DOMAIN prods
    THEN [products |-> prods, resp |-> Response("get_product", 404, "not_found")]
    ELSE [products |-> prods,
          resp |-> [Response("get_product", 200, "") EXCEPT
                       !.item = {prods[product_id]}]]

list_products(query) ==
    /\ LET r == ListProductsResult(products, product_keys, query) IN
        /\ products' = r.products
        /\ resp' = r.resp
    /\ UNCHANGED <<product_keys, reviews, wishlists, discounts, refund_call, refunds, in_flight>>

get_product(product_id) ==
    /\ LET r == GetProductResult(products, product_id) IN
        /\ products' = r.products
        /\ resp' = r.resp
    /\ UNCHANGED <<product_keys, reviews, wishlists, discounts, refund_call, refunds, in_flight>>

create_product(actor, product_id, body) ==
    /\ product_id \notin DOMAIN products       \* uuid4(): a fresh key
    /\ LET r == CreateProductResult(products, actor, product_id, body) IN
        /\ products' = r.products
        /\ resp' = r.resp
        /\ product_keys' = DictOrder(product_keys, products, r.products)
    /\ UNCHANGED <<reviews, wishlists, discounts, refund_call, refunds, in_flight>>

update_product(actor, product_id, body) ==
    /\ LET r == UpdateProductResult(products, actor, product_id, body) IN
        /\ products' = r.products
        /\ resp' = r.resp
    /\ UNCHANGED <<product_keys, reviews, wishlists, discounts, refund_call, refunds, in_flight>>

delete_product(actor, product_id) ==
    /\ LET r == DeleteProductResult(products, actor, product_id) IN
        /\ products' = r.products
        /\ resp' = r.resp
        /\ product_keys' = DictOrder(product_keys, products, r.products)
    /\ UNCHANGED <<reviews, wishlists, discounts, refund_call, refunds, in_flight>>

adjust_stock(actor, product_id, body) ==
    /\ LET r == AdjustStockResult(products, actor, product_id, body) IN
        /\ products' = r.products
        /\ resp' = r.resp
    /\ UNCHANGED <<product_keys, reviews, wishlists, discounts, refund_call, refunds, in_flight>>

\* adjust_stock in two steps, as a worker thread runs it next to others.
\* The endpoint is a plain def, which the framework runs in a thread pool,
\* and the handler takes no lock.  in_flight holds, per request, the local
\* variables of its handler and how far it got: "write" (new_stock is
\* computed and checked, line 325 is still to run), "written", "refused".
InFlight(product_id, body, new_stock, pc) ==
    [product_id |-> product_id, delta |-> body.delta,
     new_stock |-> new_stock, pc |-> pc]

\* lines 314-323: look the product up, test the owner, read stock_quantity,
\* compute new_stock and test it; an error is answered at once
adjust_stock_read(request, actor, product_id, body) ==
    /\ request \notin DOMAIN in_flight
    /\ LET r == AdjustStockResult(products, actor, product_id, body) IN
        IF r.resp.status # 200
        THEN /\ resp' = r.resp
             /\ in_flight' = Put(in_flight, request,
                                 InFlight(product_id, body, None, "refused"))
        ELSE /\ resp' = resp
             /\ in_flight' = Put(in_flight, request,
                                 InFlight(product_id, body, r.resp.val, "write"))
    /\ UNCHANGED <<products, product_keys, reviews, wishlists, discounts,
                   refund_call, refunds>>

\* lines 325-326: product["stock_quantity"] = new_stock, on the dict the
\* lookup returned, and the answer
adjust_stock_write(request) ==
    /\ request \in DOMAIN in_flight
    /\ in_flight[request].pc = "write"
    /\ LET call == in_flight[request] IN
        /\ products' =
              IF call.product_id \in DOMAIN products
              THEN [products EXCEPT
                       ![call.product_id].stock_quantity = call.new_stock]
              ELSE products
        /\ resp' = [Response("adjust_stock", 200, "") EXCEPT
                       !.val = call.new_stock]
        /\ in_flight' = [in_flight EXCEPT ![request].pc = "written"]
    /\ UNCHANGED <<product_keys, reviews, wishlists, discounts, refund_call, refunds>>

-----------------------------------------------------------------------------
\* bulk_price_update

\* price_floor: ge=0.01 currency units, here in mills
FloorMin == 10

BulkPriceUpdateRequestValid(body) ==
    /\ Len(body.product_ids) >= 1 /\ Len(body.product_ids) <= 200
    /\ body.adjustment_value > 0
    /\ (body.price_floor # None => body.price_floor >= FloorMin)
    \* validate_percentage_adjustment
    /\ ~(body.adjustment_type = "percentage" /\ body.adjustment_value > 100)

\* The adjusted price before rounding, exactly, in units of 1/100 mill:
\* old_price * (1 - value / 100), or old_price - value, then the floor.
AdjustedPrice(old_price, body) ==
    LET new_price == IF body.adjustment_type = "percentage"
                     THEN old_price * (100 - body.adjustment_value)
                     ELSE (old_price - body.adjustment_value) * 100
    IN IF Truthy(body.price_floor) /\ new_price < body.price_floor * 100
       THEN body.price_floor * 100
       ELSE new_price

\* round(new_price, 2) of a positive price: 1/100 mills to the nearest cent,
\* given in mills.  An exact tie goes to the even cent.
Round2(fine) ==
    LET q == fine \div 1000
        r == fine % 1000
    IN IF r > 500 \/ (r = 500 /\ q % 2 = 1) THEN (q + 1) * 10 ELSE q * 10

\* mutant: a product repriced by someone else becomes theirs
MutBulkItemTakesOwnership(prods, actor, body, product_id) ==
    IF product_id \notin DOMAIN prods
    THEN [products |-> prods, updated |-> <<>>,
          skipped |-> <<[id |-> product_id, reason |-> "not_found"]>>]
    ELSE IF actor.role = "vendor" /\ prods[product_id].vendor_id # actor.id
    THEN [products |-> prods, updated |-> <<>>,
          skipped |-> <<[id |-> product_id, reason |-> "not_owner"]>>]
    ELSE LET old_price == prods[product_id].price
             new_price == AdjustedPrice(old_price, body)
         IN IF new_price <= 0
            THEN [products |-> prods, updated |-> <<>>,
                  skipped |-> <<[id |-> product_id,
                                 reason |-> "price_would_be_zero_or_negative"]>>]
            ELSE [products |->
                      [prods EXCEPT ![product_id].price = Round2(new_price),
                                    ![product_id].vendor_id = actor.id],
                  updated |-> <<[id |-> product_id, old_price |-> old_price,
                                 new_price |-> Round2(new_price)]>>,
                  skipped |-> <<>>]

\* One pass of the loop body: the store and the manifest entry it leaves.
BulkItem(prods, actor, body, product_id) ==
    IF product_id \notin DOMAIN prods
    THEN [products |-> prods, updated |-> <<>>,
          skipped |-> <<[id |-> product_id, reason |-> "not_found"]>>]
    ELSE IF actor.role = "vendor" /\ prods[product_id].vendor_id # actor.id
    THEN [products |-> prods, updated |-> <<>>,
          skipped |-> <<[id |-> product_id, reason |-> "not_owner"]>>]
    ELSE LET old_price == prods[product_id].price
             new_price == AdjustedPrice(old_price, body)
         IN IF new_price <= 0
            THEN [products |-> prods, updated |-> <<>>,
                  skipped |-> <<[id |-> product_id,
                                 reason |-> "price_would_be_zero_or_negative"]>>]
            ELSE [products |->
                      [prods EXCEPT ![product_id].price = Round2(new_price)],
                  updated |-> <<[id |-> product_id, old_price |-> old_price,
                                 new_price |-> Round2(new_price)]>>,
                  skipped |-> <<>>]

\* mutant: the first skipped id ends the loop (break for continue)
RECURSIVE MutBulkLoopStopAtSkip(_, _, _, _, _, _)
MutBulkLoopStopAtSkip(ids, prods, actor, body, updated, skipped) ==
    IF ids = <<>>
    THEN [products |-> prods, updated |-> updated, skipped |-> skipped]
    ELSE LET step == BulkItem(prods, actor, body, Head(ids))
         IN IF step.skipped # <<>>
            THEN [products |-> prods, updated |-> updated,
                  skipped |-> skipped \o step.skipped]
            ELSE MutBulkLoopStopAtSkip(Tail(ids), step.products, actor, body,
                                       updated \o step.updated, skipped)

\* for product_id in body.product_ids: ...
RECURSIVE BulkLoop(_, _, _, _, _, _)
BulkLoop(ids, prods, actor, body, updated, skipped) ==
    IF ids = <<>>
    THEN [products |-> prods, updated |-> updated, skipped |-> skipped]
    ELSE LET step == BulkItem(prods, actor, body, Head(ids))
         IN BulkLoop(Tail(ids), step.products, actor, body,
                     updated \o step.updated, skipped \o step.skipped)

\* mutant: a missing product fails the whole call
MutBulkResultNotFoundFails(prods, actor, body) ==
    IF ~BulkPriceUpdateRequestValid(body)
    THEN [products |-> prods,
          resp |-> Response("bulk_price_update", 422, "validation")]
    ELSE IF actor.role \notin {"vendor", "moderator"}
    THEN [products |-> prods,
          resp |-> Response("bulk_price_update", 403, "forbidden")]
    ELSE IF \E i \in DOMAIN body.product_ids :
                body.product_ids[i] \notin DOMAIN prods
    THEN [products |-> prods,
          resp |-> Response("bulk_price_update", 404, "not_found")]
    ELSE LET done == BulkLoop(body.product_ids, prods, actor, body, <<>>, <<>>)
         IN [products |-> done.products,
             resp |-> [Response("bulk_price_update", 200, "") EXCEPT
                          !.updated = done.updated,
                          !.skipped = done.skipped]]

BulkPriceUpdateResult(prods, actor, body) ==
    IF ~BulkPriceUpdateRequestValid(body)
    THEN [products |-> prods,
          resp |-> Response("bulk_price_update", 422, "validation")]
    ELSE IF actor.role \notin {"vendor", "moderator"}
    THEN [products |-> prods,
          resp |-> Response("bulk_price_update", 403, "forbidden")]
    ELSE LET done == BulkLoop(body.product_ids, prods, actor, body, <<>>, <<>>)
         IN [products |-> done.products,
             resp |-> [Response("bulk_price_update", 200, "") EXCEPT
                          !.updated = done.updated,
                          !.skipped = done.skipped]]

bulk_price_update(actor, body) ==
    /\ LET r == BulkPriceUpdateResult(products, actor, body) IN
        /\ products' = r.products
        /\ resp' = r.resp
    /\ UNCHANGED <<product_keys, reviews, wishlists, discounts, refund_call, refunds, in_flight>>

-----------------------------------------------------------------------------
\* Wishlists: user id -> list of items.  The added_at timestamp of an item
\* plays no part in any decision and is left out.

WishlistMax == 500

PriorityMax == 10

WishlistAddRequestValid(body) ==
    body.priority >= 1 /\ body.priority <= PriorityMax

\* _wishlists.get(user_id, [])
WishlistItems(lists, user_id) ==
    IF user_id \in DOMAIN lists THEN lists[user_id] ELSE <<>>

\* len(user_ids) in 1..50
WishlistShareRequestValid(body) ==
    Len(body.user_ids) >= 1 /\ Len(body.user_ids) <= 50

\* mutant: get_wishlist reads with setdefault and so creates the key
MutGetWishlistCreatesKey(lists, actor, user_id) ==
    IF user_id # actor.id
    THEN [wishlists |-> lists, resp |-> Response("get_wishlist", 403, "forbidden")]
    ELSE [wishlists |-> Put(lists, user_id, WishlistItems(lists, user_id)),
          resp |-> [Response("get_wishlist", 200, "") EXCEPT
                       !.item = {[user_id |-> user_id,
                                  items |-> WishlistItems(lists, user_id)]}]]

GetWishlistResult(lists, actor, user_id) ==
    IF user_id # actor.id
    THEN [wishlists |-> lists, resp |-> Response("get_wishlist", 403, "forbidden")]
    ELSE [wishlists |-> lists,
          resp |-> [Response("get_wishlist", 200, "") EXCEPT
                       !.item = {[user_id |-> user_id,
                                  items |-> WishlistItems(lists, user_id)]}]]

ShareWishlistResult(lists, actor, user_id, body) ==
    IF ~WishlistShareRequestValid(body)
    THEN [wishlists |-> lists, resp |-> Response("share_wishlist", 422, "validation")]
    ELSE IF user_id # actor.id
    THEN [wishlists |-> lists, resp |-> Response("share_wishlist", 403, "forbidden")]
    ELSE [wishlists |-> lists,
          resp |-> [Response("share_wishlist", 200, "") EXCEPT
                       !.item = {[shared_with |-> body.user_ids,
                                  message |-> body.message]}]]

\* mutant: the product is looked up before the owner is checked
MutAddToWishlistLookupFirst(lists, prods, actor, user_id, body) ==
    IF ~WishlistAddRequestValid(body)
    THEN [wishlists |-> lists, resp |-> Response("add_to_wishlist", 422, "validation")]
    ELSE IF body.product_id \notin DOMAIN prods
    THEN [wishlists |-> lists, resp |-> Response("add_to_wishlist", 404, "not_found")]
    ELSE IF user_id # actor.id
    THEN [wishlists |-> lists, resp |-> Response("add_to_wishlist", 403, "forbidden")]
    ELSE LET wishlist == WishlistItems(lists, user_id)
             item == [product_id |-> body.product_id, priority |-> body.priority]
         IN IF Len(wishlist) >= WishlistMax
            THEN [wishlists |-> Put(lists, user_id, wishlist),
                  resp |-> Response("add_to_wishlist", 400, "wishlist_full")]
            ELSE [wishlists |-> Put(lists, user_id, Append(wishlist, item)),
                  resp |-> [Response("add_to_wishlist", 201, "") EXCEPT
                               !.item = {item}]]

\* mutant: the item is appended before the capacity is tested
MutAddToWishlistAppendFirst(lists, prods, actor, user_id, body) ==
    IF ~WishlistAddRequestValid(body)
    THEN [wishlists |-> lists, resp |-> Response("add_to_wishlist", 422, "validation")]
    ELSE IF user_id # actor.id
    THEN [wishlists |-> lists, resp |-> Response("add_to_wishlist", 403, "forbidden")]
    ELSE IF body.product_id \notin DOMAIN prods
    THEN [wishlists |-> lists, resp |-> Response("add_to_wishlist", 404, "not_found")]
    ELSE LET wishlist == WishlistItems(lists, user_id)
             item == [product_id |-> body.product_id, priority |-> body.priority]
         IN [wishlists |-> Put(lists, user_id, Append(wishlist, item)),
             resp |-> IF Len(wishlist) >= WishlistMax
                      THEN Response("add_to_wishlist", 400, "wishlist_full")
                      ELSE [Response("add_to_wishlist", 201, "") EXCEPT
                               !.item = {item}]]

\* mutant: the capacity test is off by one (> for >=)
MutAddToWishlistOffByOne(lists, prods, actor, user_id, body) ==
    IF ~WishlistAddRequestValid(body)
    THEN [wishlists |-> lists, resp |-> Response("add_to_wishlist", 422, "validation")]
    ELSE IF user_id # actor.id
    THEN [wishlists |-> lists, resp |-> Response("add_to_wishlist", 403, "forbidden")]
    ELSE IF body.product_id \notin DOMAIN prods
    THEN [wishlists |-> lists, resp |-> Response("add_to_wishlist", 404, "not_found")]
    ELSE LET wishlist == WishlistItems(lists, user_id)
             item == [product_id |-> body.product_id, priority |-> body.priority]
         IN IF Len(wishlist) > WishlistMax
            THEN [wishlists |-> Put(lists, user_id, wishlist),
                  resp |-> Response("add_to_wishlist", 400, "wishlist_full")]
            ELSE [wishlists |-> Put(lists, user_id, Append(wishlist, item)),
                  resp |-> [Response("add_to_wishlist", 201, "") EXCEPT
                               !.item = {item}]]

AddToWishlistResult(lists, prods, actor, user_id, body) ==
    IF ~WishlistAddRequestValid(body)
    THEN [wishlists |-> lists, resp |-> Response("add_to_wishlist", 422, "validation")]
    ELSE IF user_id # actor.id
    THEN [wishlists |-> lists, resp |-> Response("add_to_wishlist", 403, "forbidden")]
    ELSE IF body.product_id \notin DOMAIN prods
    THEN [wishlists |-> lists, resp |-> Response("add_to_wishlist", 404, "not_found")]
    ELSE \* setdefault(user_id, []) creates the key before the capacity test
         LET wishlist == WishlistItems(lists, user_id)
             item == [product_id |-> body.product_id, priority |-> body.priority]
         IN IF Len(wishlist) >= WishlistMax
            THEN [wishlists |-> Put(lists, user_id, wishlist),
                  resp |-> Response("add_to_wishlist", 400, "wishlist_full")]
            ELSE [wishlists |-> Put(lists, user_id, Append(wishlist, item)),
                  resp |-> [Response("add_to_wishlist", 201, "") EXCEPT
                               !.item = {item}]]

\* [i for i in wishlist if i["product_id"] != product_id]
WithoutProduct(wishlist, product_id) ==
    SelectSeq(wishlist, LAMBDA i : i.product_id # product_id)

RemoveFromWishlistResult(lists, actor, user_id, product_id) ==
    IF user_id # actor.id
    THEN [wishlists |-> lists,
          resp |-> Response("remove_from_wishlist", 403, "forbidden")]
    ELSE LET wishlist == WishlistItems(lists, user_id)
             kept == WithoutProduct(wishlist, product_id)
         IN \* the filtered list is stored before the length is compared
            [wishlists |-> Put(lists, user_id, kept),
             resp |-> IF Len(kept) = Len(wishlist)
                      THEN Response("remove_from_wishlist", 404, "not_in_wishlist")
                      ELSE Response("remove_from_wishlist", 204, "")]

get_wishlist(actor, user_id) ==
    /\ LET r == GetWishlistResult(wishlists, actor, user_id) IN
        /\ wishlists' = r.wishlists
        /\ resp' = r.resp
    /\ UNCHANGED <<products, product_keys, reviews, discounts, refund_call, refunds, in_flight>>

share_wishlist(actor, user_id, body) ==
    /\ LET r == ShareWishlistResult(wishlists, actor, user_id, body) IN
        /\ wishlists' = r.wishlists
        /\ resp' = r.resp
    /\ UNCHANGED <<products, product_keys, reviews, discounts, refund_call, refunds, in_flight>>

add_to_wishlist(actor, user_id, body) ==
    /\ LET r == AddToWishlistResult(wishlists, products, actor, user_id, body) IN
        /\ wishlists' = r.wishlists
        /\ resp' = r.resp
    /\ UNCHANGED <<products, product_keys, reviews, discounts, refund_call, refunds, in_flight>>

remove_from_wishlist(actor, user_id, product_id) ==
    /\ LET r == RemoveFromWishlistResult(wishlists, actor, user_id, product_id) IN
        /\ wishlists' = r.wishlists
        /\ resp' = r.resp
    /\ UNCHANGED <<products, product_keys, reviews, discounts, refund_call, refunds, in_flight>>

-----------------------------------------------------------------------------
\* Discounts: code -> discount record.  An order amount and
\* min_order_amount are whole currency units.

MaxUsesLimit == 1000000

CreateDiscountRequestValid(body) ==
    /\ body.value > 0
    /\ (body.max_uses # None =>
            body.max_uses >= 1 /\ body.max_uses <= MaxUsesLimit)
    /\ (body.min_order_amount # None => body.min_order_amount >= 0)
    \* validate_percentage_value
    /\ ~(body.discount_type = "percentage" /\ body.value > 100)

\* mutant: the test for an existing code is missing
MutCreateDiscountOverwrites(discs, actor, body) ==
    IF ~CreateDiscountRequestValid(body)
    THEN [discounts |-> discs, resp |-> Response("create_discount", 422, "validation")]
    ELSE IF actor.role \notin {"vendor", "moderator"}
    THEN [discounts |-> discs, resp |-> Response("create_discount", 403, "forbidden")]
    ELSE LET discount == [created_by |-> actor.id,
                          code |-> body.code,
                          discount_type |-> body.discount_type,
                          value |-> body.value,
                          max_uses |-> body.max_uses,
                          min_order_amount |-> body.min_order_amount,
                          uses |-> 0]
         IN [discounts |-> Put(discs, body.code, discount),
             resp |-> [Response("create_discount", 201, "") EXCEPT
                          !.item = {discount}]]

CreateDiscountResult(discs, actor, body) ==
    IF ~CreateDiscountRequestValid(body)
    THEN [discounts |-> discs, resp |-> Response("create_discount", 422, "validation")]
    ELSE IF actor.role \notin {"vendor", "moderator"}
    THEN [discounts |-> discs, resp |-> Response("create_discount", 403, "forbidden")]
    ELSE IF body.code \in DOMAIN discs
    THEN [discounts |-> discs, resp |-> Response("create_discount", 409, "code_exists")]
    ELSE LET discount == [created_by |-> actor.id,
                          code |-> body.code,
                          discount_type |-> body.discount_type,
                          value |-> body.value,
                          max_uses |-> body.max_uses,
                          min_order_amount |-> body.min_order_amount,
                          uses |-> 0]
         IN [discounts |-> Put(discs, body.code, discount),
             resp |-> [Response("create_discount", 201, "") EXCEPT
                          !.item = {discount}]]

\* mutant: the usage limit is tested before the minimum order amount
MutValidateUsageFirst(discs, code, order_amount) ==
    IF code \notin DOMAIN discs
    THEN [discounts |-> discs, resp |-> Response("validate_discount", 404, "not_found")]
    ELSE LET discount == discs[code] IN
         IF Truthy(discount.max_uses) /\ discount.uses >= discount.max_uses
         THEN [discounts |-> discs,
               resp |-> Response("validate_discount", 400, "usage_limit")]
         ELSE IF Truthy(discount.min_order_amount)
                    /\ order_amount < discount.min_order_amount
         THEN [discounts |-> discs,
               resp |-> Response("validate_discount", 400, "min_order")]
         ELSE [discounts |-> discs,
               resp |-> [Response("validate_discount", 200, "valid") EXCEPT
                            !.item = {discount}]]

\* mutant: a successful validation is counted as a use, and the usage limit
\* is tested with > for >=
MutValidateCountsUse(discs, code, order_amount) ==
    IF code \notin DOMAIN discs
    THEN [discounts |-> discs, resp |-> Response("validate_discount", 404, "not_found")]
    ELSE LET discount == discs[code] IN
         IF Truthy(discount.min_order_amount)
                /\ order_amount < discount.min_order_amount
         THEN [discounts |-> discs,
               resp |-> Response("validate_discount", 400, "min_order")]
         ELSE IF Truthy(discount.max_uses) /\ discount.uses > discount.max_uses
         THEN [discounts |-> discs,
               resp |-> Response("validate_discount", 400, "usage_limit")]
         ELSE LET used == [discount EXCEPT !.uses = @ + 1] IN
              [discounts |-> Put(discs, code, used),
               resp |-> [Response("validate_discount", 200, "valid") EXCEPT
                            !.item = {used}]]

\* the three checks of validate_discount; the store is read, never written
ValidateDiscountResult(discs, code, order_amount) ==
    IF code \notin DOMAIN discs
    THEN [discounts |-> discs, resp |-> Response("validate_discount", 404, "not_found")]
    ELSE LET discount == discs[code] IN
         IF Truthy(discount.min_order_amount)
                /\ order_amount < discount.min_order_amount
         THEN [discounts |-> discs,
               resp |-> Response("validate_discount", 400, "min_order")]
         ELSE IF Truthy(discount.max_uses) /\ discount.uses >= discount.max_uses
         THEN [discounts |-> discs,
               resp |-> Response("validate_discount", 400, "usage_limit")]
         ELSE [discounts |-> discs,
               resp |-> [Response("validate_discount", 200, "valid") EXCEPT
                            !.item = {discount}]]

create_discount(actor, body) ==
    /\ LET r == CreateDiscountResult(discounts, actor, body) IN
        /\ discounts' = r.discounts
        /\ resp' = r.resp
    /\ UNCHANGED <<products, product_keys, reviews, wishlists, refund_call, refunds, in_flight>>

validate_discount(code, order_amount) ==
    /\ LET r == ValidateDiscountResult(discounts, code, order_amount) IN
        /\ discounts' = r.discounts
        /\ resp' = r.resp
    /\ UNCHANGED <<products, product_keys, reviews, wishlists, refund_call, refunds, in_flight>>

-----------------------------------------------------------------------------
\* Refunds (payment service).  Amounts are whole currency units.

AmountLimit == 1000000

TransactionAmount == 5000

RefundRequestValid(request) ==
    request.amount # None => (request.amount > 0 /\ request.amount < AmountLimit)

\* "Simulate DB lookup": the transaction the handler synthesizes
LookupTransaction(request, actor) ==
    [customer_id |-> actor.id, status |-> "completed",
     amount |-> TransactionAmount, refunded_amount |-> 0]

\* mutant: a request above the balance is reduced to the balance
MutRefundReducedToBalance(transaction, actor, request) ==
    IF ~RefundRequestValid(request)
    THEN Response("create_refund", 422, "validation")
    ELSE IF transaction.customer_id # actor.id
    THEN Response("create_refund", 403, "access_denied")
    ELSE IF transaction.status # "completed"
    THEN Response("create_refund", 409, "not_completed")
    ELSE LET refund_amount == IF Truthy(request.amount) THEN request.amount
                              ELSE transaction.amount
             remaining_refundable ==
                 transaction.amount - transaction.refunded_amount
         IN IF refund_amount > remaining_refundable
            THEN [Response("create_refund", 200, "processed") EXCEPT
                     !.val = remaining_refundable]
            ELSE [Response("create_refund", 200, "processed") EXCEPT
                     !.val = refund_amount]

\* the checks of create_refund on the transaction the lookup returned
RefundResult(transaction, actor, request) ==
    IF ~RefundRequestValid(request)
    THEN Response("create_refund", 422, "validation")
    ELSE IF transaction.customer_id # actor.id
    THEN Response("create_refund", 403, "access_denied")
    ELSE IF transaction.status # "completed"
    THEN Response("create_refund", 409, "not_completed")
    ELSE \* refund_amount = request.amount or transaction["amount"]
         LET refund_amount == IF Truthy(request.amount) THEN request.amount
                              ELSE transaction.amount
             remaining_refundable ==
                 transaction.amount - transaction.refunded_amount
         IN IF refund_amount > remaining_refundable
            THEN Response("create_refund", 422, "exceeds_refundable_balance")
            ELSE [Response("create_refund", 200, "processed") EXCEPT
                     !.val = refund_amount]

\* The refunds the service has answered with status "processed": for each
\* transaction_id the sum of their amounts.  The handler itself keeps no
\* record; this is the history a client of the endpoint observes.
Refunded(ledger, transaction_id) ==
    IF transaction_id \in DOMAIN ledger THEN ledger[transaction_id] ELSE 0

RefundsAfter(ledger, request, response) ==
    IF response.status = 200
    THEN Put(ledger, request.transaction_id,
             Refunded(ledger, request.transaction_id) + response.val)
    ELSE ledger

\* the record of a handled refund request: who asked, for how much, and
\* the transaction the lookup returned
RefundCall(transaction, actor, request) ==
    [actor |-> actor.id, amount |-> request.amount, transaction |-> transaction]

\* the checks of create_refund on a transaction a lookup can return
refund_checks(transaction, actor, request) ==
    /\ refund_call' = RefundCall(transaction, actor, request)
    /\ resp' = RefundResult(transaction, actor, request)
    /\ UNCHANGED <<products, product_keys, reviews, wishlists, discounts, refunds,
                   in_flight>>

create_refund(actor, request) ==
    /\ LET transaction == LookupTransaction(request, actor) IN
        /\ refund_call' = RefundCall(transaction, actor, request)
        /\ resp' = RefundResult(transaction, actor, request)
        /\ refunds' = RefundsAfter(refunds, request,
                                   RefundResult(transaction, actor, request))
    /\ UNCHANGED <<products, product_keys, reviews, wishlists, discounts, in_flight>>

-----------------------------------------------------------------------------
\* Reviews: review id -> review record.  A rating is an integer number of
\* hundredths (3.5 is 350).  title, body, pros, cons and verified_purchase
\* are copied like rating and take part in no decision; they are left out.

\* round(x) of the non-negative quotient n / d: to the nearest integer, an
\* exact tie to the even one
RoundHalfEven(n, d) ==
    LET q == n \div d
        r == n % d
    IN IF 2 * r > d \/ (2 * r = d /\ q % 2 = 1) THEN q + 1 ELSE q

\* validate_rating_precision: round(v * 2) != v * 2 raises
RatingPrecise(rating) ==
    RoundHalfEven(rating * 2, 100) * 100 = rating * 2

\* mutant: the precision validator rounds the rating itself (whole stars)
MutRatingWholeStars(body) ==
    /\ body.rating >= 100 /\ body.rating <= 500
    /\ RoundHalfEven(body.rating, 100) * 100 = body.rating

\* Field(ge=1.0, le=5.0), then validate_rating_precision
CreateReviewRequestValid(body) ==
    /\ body.rating >= 100 /\ body.rating <= 500
    /\ RatingPrecise(body.rating)

ReviewStatus == {"pending", "approved", "rejected", "flagged"}

\* a schema error names the offending input: val is the rating of the request
ReviewInvalid(op, body) ==
    [Response(op, 422, "validation") EXCEPT !.val = body.rating]

CreateReviewResult(revs, prods, actor, review_id, body) ==
    IF ~CreateReviewRequestValid(body)
    THEN [reviews |-> revs, resp |-> ReviewInvalid("create_review", body)]
    ELSE IF body.product_id \notin DOMAIN prods
    THEN [reviews |-> revs, resp |-> Response("create_review", 404, "not_found")]
    ELSE LET review == [id |-> review_id,
                        author_id |-> actor.id,
                        product_id |-> body.product_id,
                        rating |-> body.rating,
                        status |-> "pending",
                        helpful_votes |-> 0,
                        moderator_note |-> Unset]
         IN [reviews |-> Put(revs, review_id, review),
             resp |-> [Response("create_review", 201, "") EXCEPT
                          !.item = {review}, !.val = body.rating]]

GetReviewResult(revs, review_id) ==
    IF review_id \notin DOMAIN revs
    THEN [reviews |-> revs, resp |-> Response("get_review", 404, "not_found")]
    ELSE [reviews |-> revs,
          resp |-> [Response("get_review", 200, "") EXCEPT
                       !.item = {revs[review_id]}]]

\* mutant: update_review rebuilds the review as create_review builds it
MutUpdateReviewRebuilds(revs, actor, review_id, body) ==
    IF ~CreateReviewRequestValid(body)
    THEN [reviews |-> revs, resp |-> ReviewInvalid("update_review", body)]
    ELSE IF review_id \notin DOMAIN revs
    THEN [reviews |-> revs, resp |-> Response("update_review", 404, "not_found")]
    ELSE IF revs[review_id].author_id # actor.id
    THEN [reviews |-> revs, resp |-> Response("update_review", 403, "forbidden")]
    ELSE LET review == [revs[review_id] EXCEPT
                           !.product_id = body.product_id,
                           !.rating = body.rating,
                           !.status = "pending"]
         IN [reviews |-> Put(revs, review_id, review),
             resp |-> [Response("update_review", 200, "") EXCEPT
                          !.item = {review}, !.val = body.rating]]

UpdateReviewResult(revs, actor, review_id, body) ==
    IF ~CreateReviewRequestValid(body)
    THEN [reviews |-> revs, resp |-> ReviewInvalid("update_review", body)]
    ELSE IF review_id \notin DOMAIN revs
    THEN [reviews |-> revs, resp |-> Response("update_review", 404, "not_found")]
    ELSE IF revs[review_id].author_id # actor.id
    THEN [reviews |-> revs, resp |-> Response("update_review", 403, "forbidden")]
    ELSE \* review.update(body.model_dump()): the fields of the request
         LET review == [revs[review_id] EXCEPT
                           !.product_id = body.product_id,
                           !.rating = body.rating]
         IN [reviews |-> Put(revs, review_id, review),
             resp |-> [Response("update_review", 200, "") EXCEPT
                          !.item = {review}, !.val = body.rating]]

DeleteReviewResult(revs, actor, review_id) ==
    IF review_id \notin DOMAIN revs
    THEN [reviews |-> revs, resp |-> Response("delete_review", 404, "not_found")]
    ELSE IF revs[review_id].author_id # actor.id
    THEN [reviews |-> revs, resp |-> Response("delete_review", 403, "forbidden")]
    ELSE [reviews |-> Del(revs, review_id),
          resp |-> Response("delete_review", 204, "")]

ModerateReviewResult(revs, actor, body) ==
    IF actor.role \notin {"moderator"}
    THEN [reviews |-> revs, resp |-> Response("moderate_review", 403, "forbidden")]
    ELSE IF body.review_id \notin DOMAIN revs
    THEN [reviews |-> revs, resp |-> Response("moderate_review", 404, "not_found")]
    ELSE LET review == [revs[body.review_id] EXCEPT
                           !.status = body.action,
                           !.moderator_note =
                               IF body.moderator_note # Unset
                               THEN body.moderator_note ELSE @]
         IN [reviews |-> Put(revs, body.review_id, review),
             resp |-> [Response("moderate_review", 200, "") EXCEPT
                          !.item = {review}]]

create_review(actor, review_id, body) ==
    /\ review_id \notin DOMAIN reviews          \* uuid4(): a fresh key
    /\ LET r == CreateReviewResult(reviews, products, actor, review_id, body) IN
        /\ reviews' = r.reviews
        /\ resp' = r.resp
    /\ UNCHANGED <<products, product_keys, wishlists, discounts, refund_call, refunds, in_flight>>

get_review(review_id) ==
    /\ LET r == GetReviewResult(reviews, review_id) IN
        /\ reviews' = r.reviews
        /\ resp' = r.resp
    /\ UNCHANGED <<products, product_keys, wishlists, discounts, refund_call, refunds, in_flight>>

update_review(actor, review_id, body) ==
    /\ LET r == UpdateReviewResult(reviews, actor, review_id, body) IN
        /\ reviews' = r.reviews
        /\ resp' = r.resp
    /\ UNCHANGED <<products, product_keys, wishlists, discounts, refund_call, refunds, in_flight>>

delete_review(actor, review_id) ==
    /\ LET r == DeleteReviewResult(reviews, actor, review_id) IN
        /\ reviews' = r.reviews
        /\ resp' = r.resp
    /\ UNCHANGED <<products, product_keys, wishlists, discounts, refund_call, refunds, in_flight>>

moderate_review(actor, body) ==
    /\ LET r == ModerateReviewResult(reviews, actor, body) IN
        /\ reviews' = r.reviews
        /\ resp' = r.resp
    /\ UNCHANGED <<products, product_keys, wishlists, discounts, refund_call, refunds, in_flight>>

-----------------------------------------------------------------------------
\* Initial state and the product-store specification

\* no refund requested yet
NoTransaction ==
    [customer_id |-> "", status |-> "", amount |-> 0, refunded_amount |-> 0]

NoRefundCall == [actor |-> "", amount |-> None, transaction |-> NoTransaction]

Init ==
    /\ products = EmptyStore
    /\ product_keys = <<>>
    /\ reviews = EmptyStore
    /\ wishlists = EmptyStore
    /\ discounts = EmptyStore
    /\ refund_call = NoRefundCall
    /\ refunds = EmptyStore
    /\ in_flight = EmptyStore
    /\ resp = NoResponse

\* request bodies issued against the product store
StockCreateBodies ==
    [category : {"books"}, status : {"draft"},
     price : {10}, sale_price : {None}, stock_quantity : {0, 1}]

StockUpdateBodies ==
    [status : {Unset}, price : {None}, sale_price : {None},
     stock_quantity : {None, 0, 2}]

StockDeltas == [delta : {-2, -1, 1}]

\* the stock stays within the model's bound
WithinStock(product_id, body) ==
    product_id \in DOMAIN products =>
        products[product_id].stock_quantity + body.delta <= MaxStock

NextStock ==
    \E actor \in Actors, product_id \in ProductIds :
        \/ \E body \in StockCreateBodies : create_product(actor, product_id, body)
        \/ \E body \in StockUpdateBodies : update_product(actor, product_id, body)
        \/ delete_product(actor, product_id)
        \/ \E body \in StockDeltas :
              WithinStock(product_id, body) /\ adjust_stock(actor, product_id, body)

SpecStock == Init /\ [][NextStock]_vars

\* requests issued against the prices of the product store
PriceCreateBodies ==
    [category : {"books"}, status : {"draft"},
     price : {0, 10, 30}, sale_price : {None, 10}, stock_quantity : {0}]

PriceUpdateBodies ==
    [status : {Unset}, price : {None, 10}, sale_price : {None, 10},
     stock_quantity : {None}]

\* the product_ids lists of length 1 .. MaxBatch
IdLists == UNION { [1..n -> ProductIds] : n \in 1..MaxBatch }

\* No request below yields a price exactly halfway between two cents.
BulkBodies ==
    [product_ids : IdLists, adjustment_type : {"percentage"},
     adjustment_value : {60}, price_floor : {None}]
    \cup
    [product_ids : IdLists, adjustment_type : {"fixed"},
     adjustment_value : {10}, price_floor : {None, 10}]
    \cup
    \* a request the schema rejects
    [product_ids : {<<"p1">>}, adjustment_type : {"percentage"},
     adjustment_value : {101}, price_floor : {None}]

\* the actors that create and update the products of the price specification
Creators == { a \in Actors : a.role # "moderator" }

\* uuid4() hands out some fresh key.  No product is deleted here and the
\* keys are interchangeable, so the price specification hands them out in
\* one order: p1, then p2.
FreshId(product_id) ==
    product_id = "p1" \/ "p1" \in DOMAIN products

NextPrice ==
    \/ \E actor \in Creators, product_id \in ProductIds :
          \E body \in PriceCreateBodies :
              FreshId(product_id) /\ create_product(actor, product_id, body)
    \/ \E actor \in Creators, product_id \in ProductIds :
          \E body \in PriceUpdateBodies : update_product(actor, product_id, body)
    \/ \E actor \in Actors :
          \E body \in BulkBodies : bulk_price_update(actor, body)

SpecPrice == Init /\ [][NextPrice]_vars


-----------------------------------------------------------------------------
\* The wishlist specification.  It starts with product p1 in the store and
\* either no wishlist or the wishlist of u2 already holding
\* WishlistMax - MaxExtra items, as that many add_to_wishlist calls leave it.

WishProduct ==
    [id |-> "p1", vendor_id |-> "u1", category |-> "books",
     status |-> "draft", price |-> 10, sale_price |-> None,
     stock_quantity |-> 0]

Prefilled ==
    [i \in 1..(WishlistMax - MaxExtra) |-> [product_id |-> "p1", priority |-> 1]]

InitWishlist ==
    /\ products = Put(EmptyStore, "p1", WishProduct)
    /\ product_keys = <<"p1">>
    /\ reviews = EmptyStore
    /\ wishlists \in {EmptyStore, Put(EmptyStore, "u2", Prefilled)}
    /\ discounts = EmptyStore
    /\ refund_call = NoRefundCall
    /\ refunds = EmptyStore
    /\ in_flight = EmptyStore
    /\ resp = NoResponse

WishActors == { a \in Actors : a.id \in {"u1", "u2"} }

WishBodies == [product_id : ProductIds, priority : {1, 10, 11}]

ShareBodies == [user_ids : {<<>>, <<"u1">>}, message : {Unset}]

\* adds are issued to short lists and to lists close to the capacity
AddsBounded(user_id) ==
    LET n == Len(WishlistItems(wishlists, user_id))
    IN n < MaxExtra \/ n >= WishlistMax - MaxExtra

NextWishlist ==
    \/ \E actor \in WishActors, user_id \in {"u1", "u2"} :
          \E body \in WishBodies :
              AddsBounded(user_id) /\ add_to_wishlist(actor, user_id, body)
    \/ \E actor \in WishActors, user_id \in {"u1", "u2"} :
          \E product_id \in ProductIds :
              remove_from_wishlist(actor, user_id, product_id)
    \/ \E actor \in WishActors, user_id \in {"u1", "u2"} :
          get_wishlist(actor, user_id)
    \/ \E actor \in WishActors, user_id \in {"u1", "u2"} :
          \E body \in ShareBodies : share_wishlist(actor, user_id, body)

SpecWishlist == InitWishlist /\ [][NextWishlist]_vars

-----------------------------------------------------------------------------
\* The discount specification

Codes == {"SAVE", "DEAL"}

DiscountBodies ==
    [code : Codes, discount_type : {"percentage"}, value : {10, 101},
     max_uses : {None, 1}, min_order_amount : {None, 20}]

OrderAmounts == {10, 30}

NextDiscount ==
    \/ \E actor \in Actors : \E body \in DiscountBodies :
          create_discount(actor, body)
    \/ \E code \in Codes : \E order_amount \in OrderAmounts :
          validate_discount(code, order_amount)

SpecDiscount == Init /\ [][NextDiscount]_vars

\* validate_discount as a function of the store it reads.  The stores are
\* drawn from the records create_discount builds, with uses up to max_uses:
\* no handler of the service writes uses after creation, so a store with
\* uses > 0 stands for one filled from outside these handlers.
MaxSeedUses == 2

SeedChoices ==
    { c \in [max_uses : {None, 1, 2}, min_order_amount : {None, 0, 20},
             uses : 0..MaxSeedUses] :
        c.max_uses # None => c.uses <= c.max_uses }

SeedRecord(code, c) ==
    [created_by |-> "u1", code |-> code, discount_type |-> "percentage",
     value |-> 10, max_uses |-> c.max_uses,
     min_order_amount |-> c.min_order_amount, uses |-> c.uses]

SeededStores ==
    UNION { { [code \in S |-> SeedRecord(code, f[code])] :
                f \in [S -> SeedChoices] } : S \in SUBSET Codes }

InitValidate ==
    /\ products = EmptyStore
    /\ product_keys = <<>>
    /\ reviews = EmptyStore
    /\ wishlists = EmptyStore
    /\ discounts \in SeededStores
    /\ refund_call = NoRefundCall
    /\ refunds = EmptyStore
    /\ in_flight = EmptyStore
    /\ resp = NoResponse

NextValidate ==
    \E code \in Codes : \E order_amount \in OrderAmounts :
        validate_discount(code, order_amount)

SpecValidate == InitValidate /\ [][NextValidate]_vars

-----------------------------------------------------------------------------
\* The refund specification.  The lookup of create_refund is a stub that
\* always returns the same completed, unrefunded transaction of the caller;
\* refund_checks applies the handler's checks to any transaction a lookup
\* can return, create_refund to the one the stub returns.

PayActors ==
    { [id |-> "user_mock_123", role |-> "user"],
      [id |-> "user_other", role |-> "user"] }

Transactions ==
    [customer_id : { a.id : a \in PayActors },
     status : {"completed", "pending", "refunded"},
     amount : {TransactionAmount},
     refunded_amount : {0, 2000, 5000}]

RefundRequests ==
    [transaction_id : {"t1"}, amount : {None, 0, 2000, 3000, 5000, 6000}]

\* requests are issued to a transaction while its refunded total is within
\* the bound
WithinRefunded(request) ==
    Refunded(refunds, request.transaction_id) <= MaxRefunded

NextRefund ==
    \/ \E actor \in PayActors : \E request \in RefundRequests :
          WithinRefunded(request) /\ create_refund(actor, request)
    \/ \E actor \in PayActors : \E request \in RefundRequests :
          \E transaction \in Transactions :
              refund_checks(transaction, actor, request)

SpecRefund == Init /\ [][NextRefund]_vars

-----------------------------------------------------------------------------
\* The refund-ledger specification: create_refund called again and again
\* on two transactions by their owner.

LedgerRequests ==
    [transaction_id : {"t1", "t2"}, amount : {None, 2000, 5000, 6000}]

NextLedger ==
    \E actor \in PayActors : \E request \in LedgerRequests :
        WithinRefunded(request) /\ create_refund(actor, request)

SpecLedger == Init /\ [][NextLedger]_vars

-----------------------------------------------------------------------------
\* The review specification: products come and go, reviews are written,
\* edited, moderated and deleted.

ReviewIds == {"r1"}

ReviewProductBodies ==
    [category : {"books"}, status : {"active"},
     price : {10}, sale_price : {None}, stock_quantity : {0}]

\* 3.5 and 4.0 pass the schema, 3.4 does not
ReviewBodies == [product_id : ProductIds, rating : {350, 400, 340}]

ModerateBodies ==
    [review_id : ReviewIds, action : ReviewStatus,
     moderator_note : {Unset, "spam"}]

Vendors == { a \in Actors : a.role = "vendor" }

NextReview ==
    \/ \E actor \in Vendors, product_id \in ProductIds :
          \E body \in ReviewProductBodies :
              create_product(actor, product_id, body)
    \/ \E actor \in Vendors, product_id \in ProductIds :
          delete_product(actor, product_id)
    \/ \E actor \in Actors, review_id \in ReviewIds :
          \E body \in ReviewBodies : create_review(actor, review_id, body)
    \/ \E review_id \in ReviewIds : get_review(review_id)
    \/ \E actor \in Actors, review_id \in ReviewIds :
          \E body \in ReviewBodies : update_review(actor, review_id, body)
    \/ \E actor \in Actors, review_id \in ReviewIds :
          delete_review(actor, review_id)
    \/ \E actor \in Actors : \E body \in ModerateBodies :
          moderate_review(actor, body)

SpecReview == Init /\ [][NextReview]_vars

-----------------------------------------------------------------------------
\* The rating specification: reviews are written and edited with ratings
\* drawn from in and around the accepted range.

\* 0.5, 1.0, 3.25, 3.3, 3.4, 3.5, 4.0, 5.0, 5.5
Ratings == {50, 100, 325, 330, 340, 350, 400, 500, 550}

RatingBodies == [product_id : ProductIds, rating : Ratings]

NextRating ==
    \/ \E actor \in Vendors, product_id \in ProductIds :
          \E body \in ReviewProductBodies :
              create_product(actor, product_id, body)
    \/ \E actor \in Actors, review_id \in ReviewIds :
          \E body \in RatingBodies : create_review(actor, review_id, body)
    \/ \E actor \in Actors, review_id \in ReviewIds :
          \E body \in RatingBodies : update_review(actor, review_id, body)

SpecRating == Init /\ [][NextRating]_vars

-----------------------------------------------------------------------------
\* The listing specification: products of two categories, two statuses and
\* two prices are created and deleted, and listed under every combination
\* of filters, sort orders and pages below.

ListCreateBodies ==
    [category : {"books", "toys"}, status : {"draft", "active"},
     price : {10, 30}, sale_price : {None}, stock_quantity : {0}]

\* min_price 20 with max_price 10 is the inverted range; page 0 is a
\* request the schema rejects
ListQueries ==
    [category : {Unset, "books"}, status : {Unset, "active"},
     sort : {"price_asc", "price_desc", "newest"},
     min_price : {None, 20}, max_price : {None, 10, 30},
     page : {1, 2}, page_size : {1, 2}]
    \cup
    [category : {Unset}, status : {Unset}, sort : {"newest"},
     min_price : {None}, max_price : {None}, page : {0}, page_size : {1}]

NextList ==
    \/ \E actor \in Vendors, product_id \in ProductIds :
          \E body \in ListCreateBodies : create_product(actor, product_id, body)
    \/ \E actor \in Vendors, product_id \in ProductIds :
          delete_product(actor, product_id)
    \/ \E query \in ListQueries : list_products(query)

SpecList == Init /\ [][NextList]_vars

-----------------------------------------------------------------------------
\* The read specification: each store is filled by its create operation and
\* read by its get, list or validate operation.

ReadReviewBodies == [product_id : ProductIds, rating : {350}]

ReadWishBodies == [product_id : {"p1"}, priority : {1, 10}]

ReadDiscountBodies ==
    [code : {"SAVE"}, discount_type : {"percentage"}, value : {10},
     max_uses : {1}, min_order_amount : {20}]

\* the actor who writes reviews and keeps a wishlist
Reviewers == { a \in Actors : a.role = "user" }

ReadQueries ==
    [category : {Unset, "books"}, status : {Unset}, sort : {"newest"},
     min_price : {None, 20}, max_price : {None}, page : {1, 2},
     page_size : {1}]

NextRead ==
    \/ \E actor \in Vendors, product_id \in ProductIds :
          \E body \in ReviewProductBodies :
              create_product(actor, product_id, body)
    \/ \E actor \in Reviewers, review_id \in ReviewIds :
          \E body \in ReadReviewBodies : create_review(actor, review_id, body)
    \/ \E actor \in Reviewers : \E body \in ReadWishBodies :
          AddsBounded(actor.id) /\ add_to_wishlist(actor, actor.id, body)
    \/ \E actor \in Vendors : \E body \in ReadDiscountBodies :
          create_discount(actor, body)
    \/ \E product_id \in ProductIds : get_product(product_id)
    \/ \E review_id \in ReviewIds : get_review(review_id)
    \/ \E actor \in WishActors, user_id \in {"u1", "u2"} :
          get_wishlist(actor, user_id)
    \/ \E query \in ReadQueries : list_products(query)
    \/ \E code \in Codes : \E order_amount \in OrderAmounts :
          validate_discount(code, order_amount)

SpecRead == Init /\ [][NextRead]_vars

-----------------------------------------------------------------------------
\* The concurrency specification: two adjust_stock requests on product p1,
\* whose stock is 1, handled by two threads in any interleaving.

ConcurrentProduct == [WishProduct EXCEPT !.stock_quantity = 1]

InitConcurrent ==
    /\ products = Put(EmptyStore, "p1", ConcurrentProduct)
    /\ product_keys = <<"p1">>
    /\ reviews = EmptyStore
    /\ wishlists = EmptyStore
    /\ discounts = EmptyStore
    /\ refund_call = NoRefundCall
    /\ refunds = EmptyStore
    /\ in_flight = EmptyStore
    /\ resp = NoResponse

Requests == {"a", "b"}

\* -2 alone is refused (1 - 2 < 0); 10001 is a request the schema rejects
ConcurrentDeltas == [delta : {-2, -1, 1, 2, 10001}]

NextConcurrent ==
    \/ \E request \in Requests, actor \in WishActors :
          \E body \in ConcurrentDeltas :
              adjust_stock_read(request, actor, "p1", body)
    \/ \E request \in Requests : adjust_stock_write(request)

SpecConcurrent == InitConcurrent /\ [][NextConcurrent]_vars

-----------------------------------------------------------------------------
\* The catalog specification: every operation of the catalog service, on
\* one product (p1 of u1; p2 is never created), one review, one discount
\* code and the wishlists of u1 and u2, that of u2 starting close to its
\* capacity.  The requests are few and drawn so that each operation meets
\* its error branches.

InitCatalog ==
    /\ products = Put(EmptyStore, "p1", WishProduct)
    /\ product_keys = <<"p1">>
    /\ reviews = EmptyStore
    /\ wishlists = Put(EmptyStore, "u2", Prefilled)
    /\ discounts = EmptyStore
    /\ refund_call = NoRefundCall
    /\ refunds = EmptyStore
    /\ in_flight = EmptyStore
    /\ resp = NoResponse

\* the stock is set to 1 by update_product and taken down by adjust_stock
CatalogUpdateBodies ==
    [status : {Unset}, price : {None}, sale_price : {None},
     stock_quantity : {1}]

CatalogDeltas == [delta : {-1}]

CatalogBulkBodies ==
    [product_ids : {<<"p1", "p2">>}, adjustment_type : {"fixed"},
     adjustment_value : {10}, price_floor : {10}]

CatalogReviewUpdates == [product_id : {"p1"}, rating : {400}]

CatalogModerations ==
    [review_id : ReviewIds, action : {"approved"}, moderator_note : {Unset}]

CatalogWishBodies == [product_id : ProductIds, priority : {1}]

\* the inverted price range
CatalogQueries ==
    [category : {Unset}, status : {Unset}, sort : {"newest"},
     min_price : {20}, max_price : {10}, page : {1}, page_size : {1}]

\* adds are issued to the wishlist close to its capacity
NearCapacity(user_id) ==
    Len(WishlistItems(wishlists, user_id)) >= WishlistMax - MaxExtra

NextCatalog ==
    \/ \E actor \in Vendors : \E body \in ReviewProductBodies :
          create_product(actor, "p1", body)
    \/ \E query \in CatalogQueries : list_products(query)
    \/ get_product("p2")
    \/ \E actor \in WishActors, product_id \in ProductIds :
          \E body \in CatalogUpdateBodies :
              update_product(actor, product_id, body)
    \/ \E actor \in WishActors, product_id \in ProductIds :
          delete_product(actor, product_id)
    \/ \E actor \in WishActors, product_id \in ProductIds :
          \E body \in CatalogDeltas : adjust_stock(actor, product_id, body)
    \/ \E actor \in Actors : \E body \in CatalogBulkBodies :
          bulk_price_update(actor, body)
    \/ \E actor \in Reviewers, review_id \in ReviewIds :
          \E body \in ReadReviewBodies : create_review(actor, review_id, body)
    \/ \E review_id \in ReviewIds : get_review(review_id)
    \/ \E actor \in WishActors, review_id \in ReviewIds :
          \E body \in CatalogReviewUpdates :
              update_review(actor, review_id, body)
    \/ \E actor \in WishActors, review_id \in ReviewIds :
          delete_review(actor, review_id)
    \/ \E actor \in Actors : \E body \in CatalogModerations :
          moderate_review(actor, body)
    \/ \E actor \in Vendors : get_wishlist(actor, "u2")
    \/ \E actor \in WishActors : \E body \in CatalogWishBodies :
          NearCapacity("u2") /\ add_to_wishlist(actor, "u2", body)
    \/ \E actor \in WishActors, user_id \in {"u1", "u2"} :
          remove_from_wishlist(actor, user_id, "p1")
    \/ \E actor \in Vendors : \E body \in ShareBodies :
          share_wishlist(actor, "u2", body)
    \/ \E actor \in WishActors : \E body \in ReadDiscountBodies :
          create_discount(actor, body)
    \/ \E code \in Codes : validate_discount(code, 10)

SpecCatalog == InitCatalog /\ [][NextCatalog]_vars

-----------------------------------------------------------------------------
\* Claims on ownership and stock (SpecStock)

Owns(actor, product_id) == products[product_id].vendor_id = actor.id

\* C1: when the actor's id differs from the stored product's vendor_id,
\* update_product, delete_product and adjust_stock each answer 403 and leave
\* the product store exactly as it was.
C1_NonOwnerDenied ==
    [][\A actor \in Actors : \A product_id \in DOMAIN products :
          ~Owns(actor, product_id) =>
            /\ \A body \in StockUpdateBodies :
                  update_product(actor, product_id, body) =>
                      resp'.status = 403 /\ products' = products
            /\ delete_product(actor, product_id) =>
                      resp'.status = 403 /\ products' = products
            /\ \A body \in StockDeltas :
                  adjust_stock(actor, product_id, body) =>
                      resp'.status = 403 /\ products' = products]_vars

\* C1 witness: a denied update, delete or stock adjustment of a stored product
C1_Witness ==
    /\ resp.status = 403
    /\ resp.op \in {"update_product", "delete_product", "adjust_stock"}
    /\ \E product_id \in DOMAIN products :
          products[product_id].vendor_id # "u1"

\* C3: adjust_stock by the owner is rejected with 400 and keeps the stock when
\* stock + delta < 0, otherwise the stock becomes exactly stock + delta; and
\* no stored product ever has a negative stock.
C3_StockAdjust ==
    /\ [](\A product_id \in DOMAIN products :
              products[product_id].stock_quantity >= 0)
    /\ [][\A actor \in Actors : \A product_id \in DOMAIN products :
            \A body \in StockDeltas :
              (Owns(actor, product_id) /\ adjust_stock(actor, product_id, body)) =>
                LET old == products[product_id].stock_quantity IN
                IF old + body.delta < 0
                THEN /\ resp'.status = 400
                     /\ products' = products
                ELSE /\ resp'.status = 200
                     /\ resp'.val = old + body.delta
                     /\ products'[product_id].stock_quantity = old + body.delta
                     /\ products' =
                          [products EXCEPT
                              ![product_id].stock_quantity = old + body.delta]]_vars

\* C3 witness: a rejected adjustment of a product whose stock is positive
C3_Witness ==
    /\ resp.op = "adjust_stock"
    /\ resp.status = 400
    /\ \E product_id \in DOMAIN products :
          products[product_id].stock_quantity = 1

-----------------------------------------------------------------------------
\* Claims on prices (SpecPrice)

\* number of occurrences of id in the list ids
RECURSIVE CountIn(_, _)
CountIn(ids, id) ==
    IF ids = <<>> THEN 0
    ELSE (IF Head(ids) = id THEN 1 ELSE 0) + CountIn(Tail(ids), id)

\* the entries of manifest list m that name product id, in order
RECURSIVE EntriesOf(_, _)
EntriesOf(m, id) ==
    IF m = <<>> THEN <<>>
    ELSE (IF Head(m).id = id THEN <<Head(m)>> ELSE <<>>) \o EntriesOf(Tail(m), id)

SkipReasons == {"not_found", "not_owner", "price_would_be_zero_or_negative"}

\* What the manifest (updated, skipped) of a call by actor with body must be
\* for product id, given the store before (pre) and after (post) the call.
ManifestOfId(pre, post, actor, body, updated, skipped, id) ==
    LET ups == EntriesOf(updated, id)
        sks == EntriesOf(skipped, id)
        denied == actor.role = "vendor" /\ id \in DOMAIN pre
                    /\ pre[id].vendor_id # actor.id
        last == IF ups = <<>> THEN pre[id].price ELSE ups[Len(ups)].new_price
    IN
    \* every occurrence has exactly one entry
    /\ Len(ups) + Len(sks) = CountIn(body.product_ids, id)
    /\ \A i \in DOMAIN sks : sks[i].reason \in SkipReasons
    /\ IF id \notin DOMAIN pre
       THEN /\ ups = <<>>
            /\ \A i \in DOMAIN sks : sks[i].reason = "not_found"
            /\ id \notin DOMAIN post
       ELSE IF denied
       THEN /\ ups = <<>>
            /\ \A i \in DOMAIN sks : sks[i].reason = "not_owner"
            /\ post[id] = pre[id]
       ELSE \* the updates chain from the stored price, each rounded to cents
            /\ \A i \in DOMAIN ups :
                  /\ ups[i].old_price =
                        (IF i = 1 THEN pre[id].price ELSE ups[i - 1].new_price)
                  /\ AdjustedPrice(ups[i].old_price, body) > 0
                  /\ ups[i].new_price =
                        Round2(AdjustedPrice(ups[i].old_price, body))
            /\ \A i \in DOMAIN sks :
                  /\ sks[i].reason = "price_would_be_zero_or_negative"
                  /\ AdjustedPrice(last, body) <= 0
            \* only the price changes, to the last new price
            /\ post[id] = [pre[id] EXCEPT !.price = last]

\* C6: each occurrence of an id in product_ids yields exactly one manifest
\* entry, updated (old and new price, the new price being the adjusted price
\* after the floor, rounded to cents) or skipped with the reason that applies;
\* a skipped product is unchanged and the other ids are updated regardless.
\* Stated of the handler's result on every reachable store and every request.
C6_BulkManifest ==
    \A actor \in Actors : \A body \in BulkBodies :
        LET r == BulkPriceUpdateResult(products, actor, body) IN
        r.resp.status = 200 =>
            /\ DOMAIN r.products = DOMAIN products
            /\ \A id \in ProductIds :
                  ManifestOfId(products, r.products, actor, body,
                               r.resp.updated, r.resp.skipped, id)

\* C6 witness: a batch in which one id was updated and another skipped
C6_Witness ==
    /\ resp.op = "bulk_price_update"
    /\ resp.status = 200
    /\ \E i \in DOMAIN resp.updated : \E j \in DOMAIN resp.skipped :
          /\ resp.updated[i].id # resp.skipped[j].id
          /\ resp.skipped[j].reason = "price_would_be_zero_or_negative"
          /\ products[resp.updated[i].id].price = resp.updated[i].new_price

\* C2 (as claimed): every stored product has sale_price absent or strictly
\* less than price.
C2_SalePriceBelowPrice ==
    \A product_id \in DOMAIN products :
        \/ products[product_id].sale_price = None
        \/ products[product_id].sale_price < products[product_id].price

\* C5 (as claimed): every stored product has price > 0.
C5_PricePositive ==
    \A product_id \in DOMAIN products : products[product_id].price > 0

\* C7 (as claimed): a schema-valid bulk_price_update never ends in an error
\* for the call as a whole, whatever the actor's role.
C7_AlwaysManifest ==
    (resp.op = "bulk_price_update" /\ resp.status # 422) => resp.status = 200

\* C7 (amended): a schema-valid bulk_price_update by a vendor or a moderator
\* returns the manifest (200) on every store, failures being reported per
\* item only; called by any other role it answers 403 and changes no product.
C7_ManifestForVendorOrModerator ==
    \A actor \in Actors : \A body \in BulkBodies :
        LET r == BulkPriceUpdateResult(products, actor, body) IN
        BulkPriceUpdateRequestValid(body) =>
            IF actor.role \in {"vendor", "moderator"}
            THEN /\ r.resp.status = 200
                 /\ Len(r.resp.updated) + Len(r.resp.skipped)
                        = Len(body.product_ids)
            ELSE /\ r.resp.status = 403
                 /\ r.products = products

\* C7 witness: a call all of whose items failed still returned its manifest
C7_Witness ==
    /\ resp.op = "bulk_price_update"
    /\ resp.status = 200
    /\ resp.updated = <<>>
    /\ \E j \in DOMAIN resp.skipped : resp.skipped[j].reason = "not_found"
    /\ \E j \in DOMAIN resp.skipped : resp.skipped[j].reason = "not_owner"

-----------------------------------------------------------------------------
\* Claims on wishlists (SpecWishlist)

\* C4: no wishlist ever holds more than 500 items; add_to_wishlist on a list
\* of 500 items fails (with the capacity error when the caller owns the list
\* and the product exists) and leaves the list as it was; a successful add
\* appends exactly the new item at the end of the unchanged earlier items.
C4_WishlistCapacity ==
    /\ [](\A user_id \in DOMAIN wishlists :
              Len(wishlists[user_id]) <= WishlistMax)
    /\ [][\A actor \in WishActors : \A user_id \in {"u1", "u2"} :
            \A body \in WishBodies :
              add_to_wishlist(actor, user_id, body) =>
                LET old == WishlistItems(wishlists, user_id)
                    new == WishlistItems(wishlists', user_id)
                    item == [product_id |-> body.product_id,
                             priority |-> body.priority]
                IN /\ Len(old) >= WishlistMax =>
                        /\ resp'.status # 201
                        /\ (user_id = actor.id
                              /\ body.product_id \in DOMAIN products
                              /\ WishlistAddRequestValid(body))
                           => (resp'.status = 400
                                 /\ resp'.detail = "wishlist_full")
                   /\ IF resp'.status = 201
                      THEN /\ new = Append(old, item)
                           /\ Len(new) = Len(old) + 1
                           /\ \A i \in DOMAIN old : new[i] = old[i]
                      ELSE new = old
                   /\ \A other \in UserIds \ {user_id} :
                        WishlistItems(wishlists', other)
                            = WishlistItems(wishlists, other)]_vars

\* C4 witness: an add refused for capacity on a list of exactly 500 items
C4_Witness ==
    /\ resp.op = "add_to_wishlist"
    /\ resp.status = 400
    /\ resp.detail = "wishlist_full"
    /\ "u2" \in DOMAIN wishlists
    /\ Len(wishlists["u2"]) = WishlistMax
    /\ wishlists["u2"][WishlistMax].priority = 10

\* C15: the wishlist of user u changes only in a successful add_to_wishlist
\* or remove_from_wishlist call of the actor whose id is u: a get_wishlist,
\* add_to_wishlist, remove_from_wishlist or share_wishlist call addressed to
\* a user_id other than the actor's id answers 403, whether or not the
\* product exists, and leaves every wishlist as it was; a call of actor a
\* leaves the wishlists of all other users as they were.
C15_WishlistOwnerOnly ==
    /\ [](\A actor \in WishActors, user_id \in {"u1", "u2"} :
            LET calls ==
                  {GetWishlistResult(wishlists, actor, user_id)}
                  \cup {AddToWishlistResult(wishlists, products, actor,
                                            user_id, body) :
                           body \in {b \in WishBodies :
                                        WishlistAddRequestValid(b)}}
                  \cup {RemoveFromWishlistResult(wishlists, actor, user_id,
                                                 product_id) :
                           product_id \in ProductIds}
                  \cup {ShareWishlistResult(wishlists, actor, user_id, body) :
                           body \in {b \in ShareBodies :
                                        WishlistShareRequestValid(b)}}
            IN \A r \in calls :
                  /\ user_id # actor.id =>
                        (r.resp.status = 403 /\ r.wishlists = wishlists)
                  /\ \A u \in UserIds \ {actor.id} :
                        /\ u \in DOMAIN r.wishlists <=> u \in DOMAIN wishlists
                        /\ WishlistItems(r.wishlists, u) =
                               WishlistItems(wishlists, u))
    /\ [][\A u \in UserIds :
              WishlistItems(wishlists', u) # WishlistItems(wishlists, u) =>
                  /\ resp'.op \in {"add_to_wishlist", "remove_from_wishlist"}
                  /\ resp'.status \in {201, 204}]_vars

\* C15 witness: u1 was refused on the wishlist of u2 for a product that is
\* not in the store, and the wishlist of u2 holds what u2 put there
C15_Witness ==
    /\ resp.op = "add_to_wishlist"
    /\ resp.status = 403
    /\ "p2" \notin DOMAIN products
    /\ "u2" \in DOMAIN wishlists
    /\ Len(wishlists["u2"]) = 1
    /\ wishlists["u2"][1].priority = 10

-----------------------------------------------------------------------------
\* Claims on discounts (SpecValidate, SpecDiscount)

\* C8: validate_discount answers, in this order: unknown code -> 404 for
\* every order_amount; order_amount < min_order_amount -> the minimum-order
\* error; uses >= max_uses -> the usage-limit error; otherwise valid with the
\* discount snapshot.  Stated of the handler's result on every store.
C8_ValidationOrder ==
    \A code \in Codes : \A order_amount \in OrderAmounts :
        LET r == ValidateDiscountResult(discounts, code, order_amount).resp IN
        IF code \notin DOMAIN discounts
        THEN r.status = 404
        ELSE LET d == discounts[code]
                 below == d.min_order_amount # None
                            /\ order_amount < d.min_order_amount
                 used_up == d.max_uses # None /\ d.uses >= d.max_uses
             IN IF below
                THEN r.status = 400 /\ r.detail = "min_order"
                ELSE IF used_up
                THEN r.status = 400 /\ r.detail = "usage_limit"
                ELSE r.status = 200 /\ r.detail = "valid" /\ r.item = {d}

\* C8 witness: the usage-limit error for a code with uses = max_uses, while
\* another code of the store fails both of the later checks
C8_Witness ==
    /\ resp.op = "validate_discount"
    /\ resp.detail = "usage_limit"
    /\ \E code \in DOMAIN discounts :
          /\ discounts[code].uses = discounts[code].max_uses
          /\ discounts[code].min_order_amount = 20
    /\ \E code \in DOMAIN discounts, order_amount \in OrderAmounts :
          /\ discounts[code].uses = discounts[code].max_uses
          /\ order_amount < discounts[code].min_order_amount
          /\ ValidateDiscountResult(discounts, code, order_amount).resp.detail
                = "min_order"

\* C9: the uses counter of a discount never decreases from one state to the
\* next, and never exceeds max_uses when max_uses is set.
C9_UsesMonotone ==
    /\ [](\A code \in DOMAIN discounts :
              discounts[code].max_uses # None =>
                  discounts[code].uses <= discounts[code].max_uses)
    /\ [][\A code \in DOMAIN discounts :
              code \in DOMAIN discounts' =>
                  discounts'[code].uses >= discounts[code].uses]_vars

\* C9 witness: a limited discount was validated successfully
C9_Witness ==
    /\ resp.op = "validate_discount"
    /\ resp.status = 200
    /\ \E d \in resp.item :
          /\ d.max_uses # None
          /\ d.code \in DOMAIN discounts
          /\ discounts[d.code].uses <= d.max_uses

\* C16: a schema-valid create_discount by an actor whose role is neither
\* vendor nor moderator answers 403; by a vendor or moderator with a code
\* already in the store it answers 409; in both cases the discount store
\* stays as it was, and no create_discount step changes or removes a
\* discount that is already stored.
C16_DiscountWriteOnce ==
    /\ [](\A actor \in Actors :
            \A body \in {b \in DiscountBodies : CreateDiscountRequestValid(b)} :
                LET r == CreateDiscountResult(discounts, actor, body)
                    allowed == actor.role \in {"vendor", "moderator"}
                IN /\ ~allowed =>
                          (r.resp.status = 403 /\ r.discounts = discounts)
                   /\ (allowed /\ body.code \in DOMAIN discounts) =>
                          (r.resp.status = 409 /\ r.discounts = discounts))
    /\ [][resp'.op = "create_discount" =>
              \A code \in DOMAIN discounts :
                  /\ code \in DOMAIN discounts'
                  /\ discounts'[code] = discounts[code]]_vars

\* C16 witness: a second create_discount for SAVE was answered 409 and the
\* discount stored first, by u1 with max_uses 1, is still there
C16_Witness ==
    /\ resp.op = "create_discount"
    /\ resp.status = 409
    /\ DOMAIN discounts = {"SAVE"}
    /\ discounts["SAVE"].created_by = "u1"
    /\ discounts["SAVE"].max_uses = 1

-----------------------------------------------------------------------------
\* Claims on refunds (SpecRefund)

\* C10: refund_amount is the requested amount or, if omitted, the full
\* transaction amount; the checks run in the order ownership (403), status
\* completed (409), refund_amount <= amount - refunded_amount (422); the
\* refund succeeds, with exactly refund_amount, iff all three pass.
C10_RefundDecision ==
    (resp.op = "create_refund" /\ resp.detail # "validation") =>
        LET t == refund_call.transaction
            refund_amount == IF refund_call.amount = None THEN t.amount
                             ELSE refund_call.amount
            owner == t.customer_id = refund_call.actor
            completed == t.status = "completed"
            within == refund_amount <= t.amount - t.refunded_amount
        IN /\ ~owner => resp.status = 403
           /\ (owner /\ ~completed) => resp.status = 409
           /\ (owner /\ completed /\ ~within) =>
                 (resp.status = 422 /\ resp.val = None)
           /\ (owner /\ completed /\ within) =>
                 (resp.status = 200 /\ resp.val = refund_amount)
           /\ resp.status = 200 => (owner /\ completed /\ within)

\* C10 witness: 6000 requested of the stub's transaction (5000, nothing
\* refunded) is refused as exceeding the refundable balance
C10_Witness ==
    /\ resp.op = "create_refund"
    /\ resp.status = 422
    /\ resp.detail = "exceeds_refundable_balance"
    /\ refund_call.amount = 6000
    /\ refund_call.transaction =
          [customer_id |-> refund_call.actor, status |-> "completed",
           amount |-> 5000, refunded_amount |-> 0]

-----------------------------------------------------------------------------
\* Claims on the refund ledger (SpecLedger)

\* C11: over any sequence of create_refund calls on the same transaction_id
\* the sum of the amounts of the processed refunds never exceeds the
\* transaction amount, so after a processed full refund no further refund
\* of that transaction is processed.
C11_RefundedWithinAmount ==
    \A transaction_id \in DOMAIN refunds :
        refunds[transaction_id] <= TransactionAmount

-----------------------------------------------------------------------------
\* Claims on reviews (SpecReview)

\* C12: a review is created with status pending; afterwards its status
\* changes only in a moderate_review call, and such a call made by an actor
\* whose role is not moderator answers 403 and changes nothing; update_review
\* changes a review only for its author and never writes status, author_id
\* or helpful_votes.
C12_StatusOnlyByModerator ==
    /\ [](/\ \A actor \in Actors : \A body \in ModerateBodies :
                actor.role # "moderator" =>
                    LET r == ModerateReviewResult(reviews, actor, body)
                    IN r.resp.status = 403 /\ r.reviews = reviews
          /\ \A actor \in Actors, review_id \in ReviewIds :
                \A body \in ReviewBodies :
                    LET r == UpdateReviewResult(reviews, actor, review_id, body)
                    IN /\ r.reviews # reviews =>
                              actor.id = reviews[review_id].author_id
                       /\ \A id \in DOMAIN reviews :
                              /\ id \in DOMAIN r.reviews
                              /\ r.reviews[id].status = reviews[id].status
                              /\ r.reviews[id].author_id = reviews[id].author_id
                              /\ r.reviews[id].helpful_votes =
                                     reviews[id].helpful_votes)
    /\ [][/\ \A id \in DOMAIN reviews' \ DOMAIN reviews :
                reviews'[id].status = "pending"
          /\ \A id \in DOMAIN reviews \cap DOMAIN reviews' :
                reviews'[id].status # reviews[id].status =>
                    (resp'.op = "moderate_review" /\ resp'.status = 200)]_vars

\* C12 witness: the author has edited a review that was approved before;
\* it is still approved
C12_Witness ==
    /\ resp.op = "update_review"
    /\ resp.status = 200
    /\ \E id \in DOMAIN reviews :
          /\ reviews[id] \in resp.item
          /\ reviews[id].status = "approved"
          /\ reviews[id].rating = 400

\* C13: a review's status moves only from pending to approved, rejected or
\* flagged: a status of approved, rejected or flagged never changes again,
\* and no step moves a review to pending.
C13_StatusTransitions ==
    [][\A id \in DOMAIN reviews \cap DOMAIN reviews' :
          reviews'[id].status # reviews[id].status =>
              /\ reviews[id].status = "pending"
              /\ reviews'[id].status \in {"approved", "rejected", "flagged"}]_vars

\* C14: each stored review's product_id is the key of a product in the
\* product store.
C14_ReviewProductExists ==
    \A id \in DOMAIN reviews : reviews[id].product_id \in DOMAIN products

-----------------------------------------------------------------------------
\* Claims on the rating validator (SpecRating)

\* C20: a request carrying rating r passes the schema iff 1.0 <= r <= 5.0
\* and 2 * r is an integer (r in hundredths: 2 * r is a multiple of 100);
\* 3.5 and 4.0 pass, 3.3, 3.4 and 5.5 do not.
C20_RatingAccepted ==
    /\ (resp.op \in {"create_review", "update_review"} /\ resp.val # None) =>
           (resp.status # 422 <=>
               (resp.val >= 100 /\ resp.val <= 500 /\ (2 * resp.val) % 100 = 0))
    /\ \A body \in RatingBodies :
           /\ body.rating \in {350, 400} => CreateReviewRequestValid(body)
           /\ body.rating \in {330, 340, 550} => ~CreateReviewRequestValid(body)

\* C20 witness: a review rated 3.5 is stored after a request rated 3.4 was
\* turned down
C20_Witness ==
    /\ resp.op = "update_review"
    /\ resp.status = 422
    /\ resp.val = 340
    /\ \E id \in DOMAIN reviews : reviews[id].rating = 350

-----------------------------------------------------------------------------
\* Claims on list_products (SpecList)

\* the product satisfies every filter the query supplies
Matches(p, query) ==
    /\ query.category # Unset => p.category = query.category
    /\ query.status # Unset => p.status = query.status
    /\ query.min_price # None => p.price >= query.min_price
    /\ query.max_price # None => p.price <= query.max_price

\* position of a product in the order of creation
CreatedAt(product_id) ==
    CHOOSE i \in 1..Len(product_keys) : product_keys[i] = product_id

\* C17: for a schema-valid query, list_products answers 400 when min_price
\* exceeds max_price; otherwise total is the number of products satisfying
\* all supplied filters, whatever the page, and items is the page
\* [(page-1)*page_size, page*page_size) of the sequence of those products
\* (taken here in the order of the store; the order is the subject of C18):
\* only matching products, none twice, and empty past the end.
C17_FilterAndPage ==
    \A query \in {q \in ListQueries : ListQueryValid(q)} :
        LET r == ListProductsResult(products, product_keys, query).resp
            inverted == /\ query.min_price # None
                        /\ query.max_price # None
                        /\ query.min_price > query.max_price
            matching == {k \in DOMAIN products : Matches(products[k], query)}
            ordered == SelectSeq(product_keys, LAMBDA k : k \in matching)
            start == (query.page - 1) * query.page_size
            rest == Cardinality(matching) - start
            size == IF rest < 0 THEN 0
                    ELSE IF rest < query.page_size THEN rest
                    ELSE query.page_size
        IN /\ inverted => (r.status = 400 /\ r.item = {})
           /\ ~inverted =>
                 /\ r.status = 200
                 /\ \E listing \in r.item :
                       /\ r.item = {listing}
                       /\ listing.total = Cardinality(matching)
                       /\ Len(listing.items) = size
                       /\ \A i \in 1..size :
                             listing.items[i] = products[ordered[start + i]]
                       /\ start >= listing.total => listing.items = <<>>

\* C17 witness: of two products of different categories one passes the
\* filters, and the page asked for lies past the end: no items, total 1
C17_Witness ==
    /\ resp.op = "list_products"
    /\ resp.status = 200
    /\ Len(product_keys) = 2
    /\ products[product_keys[1]].category # products[product_keys[2]].category
    /\ \E listing \in resp.item :
          /\ listing.total = 1
          /\ listing.items = <<>>

\* C18: the items of a listing are in the order of the requested sort:
\* price_asc by non-decreasing price, price_desc by non-increasing price,
\* newest by creation, latest first; products of equal price stay in the
\* order of their creation.  (rating_desc and popular have no key in a
\* stored product and are not drawn.)
C18_Sorted ==
    \A query \in {q \in ListQueries : ListQueryValid(q)} :
        \A listing \in ListProductsResult(products, product_keys, query).resp.item :
            \A i, j \in 1..Len(listing.items) :
                i < j =>
                    LET a == listing.items[i]
                        b == listing.items[j]
                    IN /\ query.sort = "price_asc" => a.price <= b.price
                       /\ query.sort = "price_desc" => a.price >= b.price
                       /\ query.sort = "newest" =>
                             CreatedAt(a.id) > CreatedAt(b.id)
                       /\ (query.sort \in {"price_asc", "price_desc"}
                              /\ a.price = b.price) =>
                             CreatedAt(a.id) < CreatedAt(b.id)

-----------------------------------------------------------------------------
\* Claims on the read operations (SpecRead)

stores == <<products, product_keys, reviews, wishlists, discounts>>

\* C19: a get_product, get_review, get_wishlist, list_products or
\* validate_discount step leaves every store as it was, and the same call
\* made again in the state it leaves gives the response it gave.
C19_ReadsChangeNothing ==
    [][/\ \A product_id \in ProductIds :
              get_product(product_id) =>
                  /\ stores' = stores
                  /\ GetProductResult(products', product_id).resp = resp'
       /\ \A review_id \in ReviewIds :
              get_review(review_id) =>
                  /\ stores' = stores
                  /\ GetReviewResult(reviews', review_id).resp = resp'
       /\ \A actor \in WishActors, user_id \in {"u1", "u2"} :
              get_wishlist(actor, user_id) =>
                  /\ stores' = stores
                  /\ GetWishlistResult(wishlists', actor, user_id).resp = resp'
       /\ \A query \in ReadQueries :
              list_products(query) =>
                  /\ stores' = stores
                  /\ ListProductsResult(products', product_keys', query).resp
                         = resp'
       /\ \A code \in Codes : \A order_amount \in OrderAmounts :
              validate_discount(code, order_amount) =>
                  /\ stores' = stores
                  /\ ValidateDiscountResult(discounts', code, order_amount).resp
                         = resp']_vars

\* C19 witness: u1, who has no wishlist, has read it (an empty list) while
\* the other stores are filled; the read did not create the wishlist
C19_Witness ==
    /\ resp.op = "get_wishlist"
    /\ resp.status = 200
    /\ \E w \in resp.item : w.user_id = "u1" /\ w.items = <<>>
    /\ "u1" \notin DOMAIN wishlists
    /\ "u2" \in DOMAIN wishlists
    /\ DOMAIN products = ProductIds
    /\ DOMAIN reviews # {}
    /\ DOMAIN discounts # {}

-----------------------------------------------------------------------------
\* Claims on concurrent stock adjustments (SpecConcurrent)

\* the request has written its new stock
Written(request) ==
    request \in DOMAIN in_flight /\ in_flight[request].pc = "written"

\* C21: when two adjust_stock requests on the same product are handled at
\* the same time, the stock is never negative, and if both succeed the
\* stock ends at its initial value plus both deltas.
C21_NoLostUpdate ==
    /\ products["p1"].stock_quantity >= 0
    /\ (Written("a") /\ Written("b")) =>
           products["p1"].stock_quantity =
               ConcurrentProduct.stock_quantity
                   + in_flight["a"].delta + in_flight["b"].delta

-----------------------------------------------------------------------------
\* Claims on all catalog operations (SpecCatalog)

\* C22: a step whose response is an error 400, 403, 404 or 409 leaves the
\* product, review and discount stores as they were, and the item sequence
\* of every user's wishlist too, a user without an entry counting as one
\* with the empty sequence.
C22_ErrorsChangeNothing ==
    [][resp'.status \in {400, 403, 404, 409} =>
          /\ products' = products
          /\ reviews' = reviews
          /\ discounts' = discounts
          /\ \A u \in UserIds :
                WishlistItems(wishlists', u) = WishlistItems(wishlists, u)]_vars

\* C22 witness: u1, who had no wishlist, asked to remove p1 from it and got
\* 404; the entry the handler stored for u1 is empty, and the wishlist of
\* u2 is at its capacity
C22_Witness ==
    /\ resp.op = "remove_from_wishlist"
    /\ resp.status = 404
    /\ "u1" \in DOMAIN wishlists
    /\ wishlists["u1"] = <<>>
    /\ Len(WishlistItems(wishlists, "u2")) = WishlistMax

\* C23: a stored product's id and vendor_id, a stored review's id and
\* author_id and a stored discount's created_by are the same after every
\* step as before it, and the id of a record is the key it is stored under.
C23_OwnershipFixed ==
    /\ [](/\ \A k \in DOMAIN products : products[k].id = k
          /\ \A k \in DOMAIN reviews : reviews[k].id = k
          /\ \A k \in DOMAIN discounts : discounts[k].code = k)
    /\ [][/\ \A k \in DOMAIN products \cap DOMAIN products' :
                /\ products'[k].id = products[k].id
                /\ products'[k].vendor_id = products[k].vendor_id
          /\ \A k \in DOMAIN reviews \cap DOMAIN reviews' :
                /\ reviews'[k].id = reviews[k].id
                /\ reviews'[k].author_id = reviews[k].author_id
          /\ \A k \in DOMAIN discounts \cap DOMAIN discounts' :
                discounts'[k].created_by = discounts[k].created_by]_vars

\* C23 witness: a bulk_price_update has repriced p1, which is still of u1,
\* next to a review of u2 that was edited and approved and a discount of u1
C23_Witness ==
    /\ resp.op = "bulk_price_update"
    /\ resp.status = 200
    /\ resp.updated # <<>>
    /\ "p1" \in DOMAIN products
    /\ products["p1"].vendor_id = "u1"
    /\ products["p1"].stock_quantity = 1
    /\ \E k \in DOMAIN reviews :
          /\ reviews[k].author_id = "u2"
          /\ reviews[k].rating = 400
          /\ reviews[k].status = "approved"
    /\ \E k \in DOMAIN discounts : discounts[k].created_by = "u1"

====
